---- MODULE Spec2Model ----
(***************************************************************************)
(* Model of app.py: a Flask application with two tables (User, Booking),   *)
(* a cookie session per browser and role-guarded routes.                   *)
(*                                                                         *)
(* Strings are sequences of one-character strings, so that strip() and     *)
(* lower() are computed.  Every browser (cookie jar) is one element of     *)
(* Sessions and issues one request at a time.  The signup handler reads    *)
(* the table (line 80) and writes it (line 87) in two database steps, so   *)
(* it is modelled as two actions that requests of other browsers may       *)
(* interleave with; every other handler touches the table once and is one  *)
(* action.                                                                 *)
(*                                                                         *)
(* last is the response to the latest request; signedUp and current are    *)
(* history variables that no handler reads.  Spec varies names and roles   *)
(* with one valid password, SpecAuth varies passwords with one name and    *)
(* one role; both take every handler.                                      *)
(***************************************************************************)
EXTENDS Integers, Sequences, FiniteSets, TLC

\* ---------- Bounds ----------
MaxUsers == 2
MaxBookings == 2
NumSessions == 2
MaxSalt == 1

Sessions == 1..NumSessions
Salts == 1..MaxSalt

\* ---------- Strings ----------
Alphabet == <<" ", "a", "b", "p", "q", "x", "A", "X", "U", "s", "e", "r">>

Code(c) == CHOOSE i \in 1..Len(Alphabet) : Alphabet[i] = c

LowerChar(c) == IF c = "A" THEN "a" ELSE IF c = "X" THEN "x" ELSE IF c = "U" THEN "u" ELSE c

Lower(str) == [i \in 1..Len(str) |-> LowerChar(str[i])]

RECURSIVE LStrip(_)
LStrip(str) == IF str # <<>> /\ Head(str) = " " THEN LStrip(Tail(str)) ELSE str

RECURSIVE RStrip(_)
RStrip(str) ==
    IF str # <<>> /\ str[Len(str)] = " " THEN RStrip(SubSeq(str, 1, Len(str) - 1)) ELSE str

NoStrip(str) == str

Strip(str) == RStrip(LStrip(str))

DefaultName == <<"U", "s", "e", "r">>

\* ---------- Form inputs ----------
NameInputs == {<<>>, <<"A", " ">>}
EmailInputs == {<<" ">>, <<"a">>, <<" ", "A">>, <<"b">>}
PasswordInputs == {<<>>, <<"p">>, <<"q">>}
OneName == {<<>>}
OnePassword == {<<>>, <<"p">>}
Roles == {"passenger", "driver", "admin"}
OneRole == {"passenger"}
FieldInputs == {<<>>, <<" ">>, <<"x">>}

\* ---------- Password hashing (werkzeug.security) ----------
\* app.py only calls the library: the stored value is a salt and a digest of salt
\* and password, and a password is accepted when it gives the stored digest again.
\* The digest is a 16-bit polynomial hash, without collisions on the model's passwords.
RECURSIVE Digest(_, _)
Digest(acc, pw) ==
    IF pw = <<>> THEN acc ELSE Digest((acc * 31 + Code(Head(pw))) % 65536, Tail(pw))

generate_password_hash(pw, salt) == [salt |-> salt, digest |-> Digest(salt, pw)]

accept_any_password(pwhash, pw) == TRUE

check_password_hash(pwhash, pw) == Digest(pwhash.salt, pw) = pwhash.digest

VARIABLES
    users,      \* table User, in id order
    bookings,   \* table Booking, in id order
    session,    \* the Flask session of each browser
    pending,    \* a signup request between its lookup and its insert
    signedUp,   \* history: the password each user gave at signup
    current,    \* history: the password each user set last
    last        \* the last response sent

vars == <<users, bookings, session, pending, signedUp, current, last>>

NoSession == [user_id |-> 0, role |-> "none", name |-> <<>>]
NoRequest == [name |-> <<>>, email |-> <<>>, password |-> <<>>, role |-> "none"]
NoCtx == [active |-> "none"]

LoggedIn(s) == session[s].user_id # 0

Response(s, route, method, status, target, flash, ctx) ==
    [sid |-> s, route |-> route, method |-> method, status |-> status,
     target |-> target, flash |-> flash, ctx |-> ctx]

Redirect(s, route, method, target, flash) ==
    Response(s, route, method, "redirect", target, flash, NoCtx)

Render(s, route, method, template, ctx) ==
    Response(s, route, method, "render", template, "none", ctx)

Init ==
    /\ users = <<>>
    /\ bookings = <<>>
    /\ session = [s \in Sessions |-> NoSession]
    /\ pending = [s \in Sessions |-> NoRequest]
    /\ signedUp = <<>>
    /\ current = <<>>
    /\ last = Response(0, "none", "none", "none", "none", "none", NoCtx)

Idle(s) == pending[s] = NoRequest

\* ---------- Queries ----------
\* User.query.filter_by(email=email).first(): the id of the row, 0 for None
UserByEmail(email) ==
    IF \E i \in 1..Len(users) : users[i].email = email
    THEN CHOOSE i \in 1..Len(users) :
            /\ users[i].email = email
            /\ \A j \in 1..Len(users) : users[j].email = email => i <= j
    ELSE 0

\* the unique=True constraint on User.email
no_constraint(email) == TRUE

unique_email(email) == \A i \in 1..Len(users) : users[i].email # email

\* order_by(created_at.desc()) / order_by(id.desc()): the tables are kept in
\* insertion order, which is the order of both keys
Desc(rows) == [i \in 1..Len(rows) |-> rows[Len(rows) + 1 - i]]

\* session["user_id"], session["role"], session["name"] as signup and login set them
session_default_name(user) == [user_id |-> user.id, role |-> user.role, name |-> DefaultName]

session_of(user) == [user_id |-> user.id, role |-> user.role, name |-> user.name]

\* ---------- Helpers ----------
login_required(s) == IF ~LoggedIn(s) THEN "login" ELSE "ok"

require_role_admin_passes(s, role) ==
    IF ~LoggedIn(s) THEN "login"
    ELSE IF session[s].role # role /\ session[s].role # "admin" THEN "dashboard"
    ELSE "ok"

require_role_login_only(s, role) == IF ~LoggedIn(s) THEN "login" ELSE "ok"

require_role(s, role) ==
    IF ~LoggedIn(s) THEN "login"
    ELSE IF session[s].role # role THEN "dashboard"
    ELSE "ok"

PleaseLogIn == "Please log in first."
NotAuthorized == "You are not authorized to view that page."

\* the response of a guard that did not let the request through
Denied(s, route, method, gate) ==
    IF gate = "login" THEN Redirect(s, route, method, "login", PleaseLogIn)
    ELSE Redirect(s, route, method, "dashboard", NotAuthorized)

\* ---------- Routes ----------
\* POST /signup, lines 70-82: validation and the lookup of the email
signup(s, rawName, rawEmail, password, rawRole) ==
    LET name == IF Strip(rawName) # <<>> THEN Strip(rawName) ELSE DefaultName
        email == Lower(Strip(rawEmail))
        role == rawRole
    IN  /\ Idle(s)
        /\ IF email = <<>> \/ password = <<>> \/ role \notin Roles
           THEN /\ last' = Redirect(s, "signup", "POST", "signup",
                                    "Please fill all fields correctly.")
                /\ UNCHANGED pending
           ELSE IF UserByEmail(email) # 0
           THEN /\ last' = Redirect(s, "signup", "POST", "login",
                                    "Email already registered. Please log in.")
                /\ UNCHANGED pending
           ELSE /\ Len(users) + Cardinality({t \in Sessions : ~Idle(t)}) < MaxUsers
                /\ pending' = [pending EXCEPT ![s] =
                        [name |-> name, email |-> email, password |-> password, role |-> role]]
                /\ UNCHANGED last
        /\ UNCHANGED <<users, bookings, session, signedUp, current>>

\* POST /signup, lines 84-93: the insert and the new session
signup_commit(s) ==
    /\ ~Idle(s)
    /\ pending' = [pending EXCEPT ![s] = NoRequest]
    /\ IF unique_email(pending[s].email)
       THEN \E salt \in Salts :
            LET user == [id |-> Len(users) + 1,
                         name |-> pending[s].name,
                         email |-> pending[s].email,
                         password |-> generate_password_hash(pending[s].password, salt),
                         role |-> pending[s].role]
            IN  /\ users' = Append(users, user)
                /\ signedUp' = Append(signedUp, pending[s].password)
                /\ current' = Append(current, pending[s].password)
                /\ session' = [session EXCEPT ![s] = session_of(user)]
                /\ last' = Redirect(s, "signup", "POST", "dashboard",
                                    "Signup successful. Welcome!")
       ELSE \* db.session.commit() raises IntegrityError, which nothing catches
            /\ last' = Response(s, "signup", "POST", "error", "500", "none", NoCtx)
            /\ UNCHANGED <<users, signedUp, current, session>>
    /\ UNCHANGED bookings

\* POST /login
login(s, rawEmail, password) ==
    LET email == Lower(Strip(rawEmail))
        user == UserByEmail(email)
    IN  /\ Idle(s)
        /\ IF user # 0 /\ check_password_hash(users[user].password, password)
           THEN /\ session' = [session EXCEPT ![s] = session_of(users[user])]
                /\ last' = Redirect(s, "login", "POST", "dashboard", "Login successful!")
           ELSE /\ last' = Redirect(s, "login", "POST", "login", "Invalid email or password.")
                /\ UNCHANGED session
        /\ UNCHANGED <<users, bookings, pending, signedUp, current>>

\* GET /logout
logout(s) ==
    /\ Idle(s)
    /\ session' = [session EXCEPT ![s] = NoSession]
    /\ last' = Redirect(s, "logout", "GET", "home", "You have been logged out.")
    /\ UNCHANGED <<users, bookings, pending, signedUp, current>>

\* the two queries of the passenger dashboard, lines 154-164
Upcoming(uid) ==
    Desc(SelectSeq(bookings, LAMBDA b : b.passenger_id = uid /\ b.status # "Completed"))

History_any_status(uid) ==
    Desc(SelectSeq(bookings, LAMBDA b : b.passenger_id = uid))

History(uid) ==
    Desc(SelectSeq(bookings, LAMBDA b : b.passenger_id = uid /\ b.status = "Completed"))

\* the template context of GET /dashboard for a session that is logged in
dashboard_ctx(s) ==
    LET role == session[s].role
        name == session[s].name
    IN  IF role = "admin"
        THEN [template |-> "admin_dashboard.html", name |-> name, role |-> role,
              active |-> "dashboard",
              total_users |-> Len(users),
              total_passengers |-> Len(SelectSeq(users, LAMBDA u : u.role = "passenger")),
              total_drivers |-> Len(SelectSeq(users, LAMBDA u : u.role = "driver")),
              total_bookings |-> Len(bookings)]
        ELSE IF role = "driver"
        THEN [template |-> "driver_dashboard.html", name |-> name, role |-> role,
              active |-> "dashboard", assigned_trips |-> <<>>]
        ELSE [template |-> "passenger_dashboard.html", name |-> name, role |-> role,
              active |-> "dashboard",
              trips |-> Upcoming(session[s].user_id),
              history |-> History(session[s].user_id)]

\* GET /dashboard
dashboard(s) ==
    /\ Idle(s)
    /\ IF login_required(s) # "ok"
       THEN last' = Redirect(s, "dashboard", "GET", "login", PleaseLogIn)
       ELSE last' = Render(s, "dashboard", "GET", dashboard_ctx(s).template, dashboard_ctx(s))
    /\ UNCHANGED <<users, bookings, session, pending, signedUp, current>>

\* GET and POST /book-trip
book_trip(s, method, rawDate, rawOrigin, rawDestination) ==
    LET gate == require_role(s, "passenger")
        trip_date == Strip(rawDate)
        origin == Strip(rawOrigin)
        destination == Strip(rawDestination)
    IN  /\ Idle(s)
        /\ IF gate # "ok"
           THEN /\ last' = Denied(s, "book_trip", method, gate)
                /\ UNCHANGED bookings
           ELSE IF method = "GET"
           THEN /\ last' = Render(s, "book_trip", method, "book_trip.html",
                                  [active |-> "book_trip"])
                /\ UNCHANGED bookings
           ELSE IF trip_date = <<>> \/ origin = <<>> \/ destination = <<>>
           THEN /\ last' = Redirect(s, "book_trip", method, "book_trip",
                                    "Please complete all trip fields.")
                /\ UNCHANGED bookings
           ELSE /\ Len(bookings) < MaxBookings
                /\ bookings' = Append(bookings,
                        [id |-> Len(bookings) + 1,
                         passenger_id |-> session[s].user_id,
                         trip_date |-> trip_date,
                         origin |-> origin,
                         destination |-> destination,
                         status |-> "Booked",
                         created_at |-> Len(bookings) + 1])
                /\ last' = Redirect(s, "book_trip", method, "view_bookings",
                                    "Trip booked successfully!")
        /\ UNCHANGED <<users, session, pending, signedUp, current>>

view_all_bookings_ctx(s) == [bookings |-> Desc(bookings), active |-> "view_bookings"]

\* the query of GET /view-bookings, line 203
view_bookings_ctx(s) ==
    [bookings |-> Desc(SelectSeq(bookings, LAMBDA b : b.passenger_id = session[s].user_id)),
     active |-> "view_bookings"]

\* GET /view-bookings
view_bookings(s) ==
    LET gate == require_role(s, "passenger")
    IN  /\ Idle(s)
        /\ IF gate # "ok"
           THEN last' = Denied(s, "view_bookings", "GET", gate)
           ELSE last' = Render(s, "view_bookings", "GET", "view_bookings.html",
                               view_bookings_ctx(s))
        /\ UNCHANGED <<users, bookings, session, pending, signedUp, current>>

\* POST /profile
profile(s, rawName, rawPwd, salt) ==
    LET uid == session[s].user_id
        name == Strip(rawName)
        pwd == Strip(rawPwd)
    IN  /\ Idle(s)
        /\ IF login_required(s) # "ok"
           THEN /\ last' = Redirect(s, "profile", "POST", "login", PleaseLogIn)
                /\ UNCHANGED <<users, session, current>>
           ELSE /\ users' = [users EXCEPT ![uid] =
                        [@ EXCEPT !.name = IF name # <<>> THEN name ELSE @,
                                  !.password = IF pwd # <<>>
                                               THEN generate_password_hash(pwd, salt)
                                               ELSE @]]
                /\ session' = IF name # <<>>
                              THEN [session EXCEPT ![s].name = name]
                              ELSE session
                /\ current' = IF pwd # <<>> THEN [current EXCEPT ![uid] = pwd] ELSE current
                /\ last' = Redirect(s, "profile", "POST", "profile", "Profile updated!")
        /\ UNCHANGED <<bookings, pending, signedUp>>

\* the template context of GET /reports, line 237
reports_ctx(s) ==
    [active |-> "reports", name |-> session[s].name, role |-> "admin"]

\* the template context of GET /manage-users, lines 242-243
manage_users_ctx(s) ==
    [active |-> "manage_users", name |-> session[s].name, role |-> "admin",
     users |-> Desc(users)]

\* the template context of GET /trips-overview, lines 248-249
trips_overview_ctx(s) ==
    [active |-> "trips_overview", name |-> session[s].name, role |-> "admin",
     bookings |-> Desc(bookings)]

AdminRoutes == {"reports", "manage_users", "trips_overview"}

admin_ctx(s, route) ==
    IF route = "reports" THEN reports_ctx(s)
    ELSE IF route = "manage_users" THEN manage_users_ctx(s)
    ELSE trips_overview_ctx(s)

\* GET /reports, /manage-users, /trips-overview
admin_view(s, route) ==
    LET gate == require_role(s, "admin")
    IN  /\ Idle(s)
        /\ IF gate # "ok"
           THEN last' = Denied(s, route, "GET", gate)
           ELSE last' = Render(s, route, "GET", "admin_dashboard.html", admin_ctx(s, route))
        /\ UNCHANGED <<users, bookings, session, pending, signedUp, current>>

reports(s) == admin_view(s, "reports")
manage_users(s) == admin_view(s, "manage_users")
trips_overview(s) == admin_view(s, "trips_overview")

\* The forms sent to /signup: every form the validation of line 76 accepts, and one
\* form for each of the three ways it rejects
SignupForms(Names, Passwords, RolesIn) ==
    [name : Names, email : EmailInputs \ {<<" ">>}, password : Passwords \ {<<>>},
     role : RolesIn]
    \cup {[name |-> <<>>, email |-> <<" ">>, password |-> <<"p">>, role |-> "passenger"],
          [name |-> <<>>, email |-> <<"a">>, password |-> <<>>, role |-> "passenger"],
          [name |-> <<>>, email |-> <<"a">>, password |-> <<"p">>, role |-> "guest"]}

\* The handler uses the name and the role of a form at line 85, after the lookup of
\* the email at line 80 found no row: for a registered email one form stands for all.
Unread(Forms) ==
    {f \in Forms : \/ UserByEmail(Lower(Strip(f.email))) = 0
                   \/ f.name = <<>> /\ f.role = "passenger"}

\* The forms sent to /book-trip. The handler reads the form at lines 179-181, after
\* the gate has let a POST through: one form stands for all where it is not read.
TripForms(s, method) ==
    IF method = "POST" /\ require_role(s, "passenger") = "ok"
    THEN [trip_date : FieldInputs, origin : FieldInputs, destination : FieldInputs]
    ELSE {[trip_date |-> <<>>, origin |-> <<>>, destination |-> <<>>]}

\* One request of browser s, its form fields drawn from the given sets
Request(s, Forms, Names, Emails, Passwords) ==
    \/ \E f \in Unread(Forms) : signup(s, f.name, f.email, f.password, f.role)
    \/ signup_commit(s)
    \/ \E e \in Emails, p \in Passwords : login(s, e, p)
    \/ logout(s)
    \/ dashboard(s)
    \/ \E m \in {"GET", "POST"} : \E f \in TripForms(s, m) :
          book_trip(s, m, f.trip_date, f.origin, f.destination)
    \/ view_bookings(s)
    \/ \E n \in Names, p \in Passwords, salt \in Salts : profile(s, n, p, salt)
    \/ reports(s)
    \/ manage_users(s)
    \/ trips_overview(s)

\* Every handler, with one valid password: names, emails, roles and trips vary
Next ==
    \E s \in Sessions :
        Request(s, SignupForms(NameInputs, OnePassword, Roles), NameInputs, EmailInputs, OnePassword)

Spec == Init /\ [][Next]_vars

\* Every handler, with one name and one role: passwords, emails and trips vary
NextAuth ==
    \E s \in Sessions :
        Request(s, SignupForms(OneName, PasswordInputs, OneRole), OneName, EmailInputs,
                PasswordInputs)

SpecAuth == Init /\ [][NextAuth]_vars

\* ---------- Claims ----------
Range(seq) == {seq[i] : i \in 1..Len(seq)}

Normalised(rawEmail) == Lower(Strip(rawEmail))

Blank(str) == \A i \in 1..Len(str) : str[i] = " "

NonBlank == {f \in FieldInputs : ~Blank(f)}

OwnedBy(uid) == {b \in Range(bookings) : b.passenger_id = uid}

LoginSucceeded(s, uid) ==
    /\ session'[s] = [user_id |-> uid, role |-> users[uid].role, name |-> users[uid].name]
    /\ last'.sid = s /\ last'.route = "login" /\ last'.target = "dashboard"

LoginFailed(s) ==
    /\ session' = session
    /\ last'.sid = s /\ last'.route = "login" /\ last'.target = "login"
    /\ last'.flash = "Invalid email or password."

\* The action properties below state "the step is request R, so C holds" as
\* C \/ ~R: the two say the same, and C is the cheaper one to evaluate first.

\* C1 as stated: a login with the email and the password given at signup succeeds at
\* any later point and opens a session for that user, and a login with that email
\* and any other password fails and opens no session.
C1_SignupPasswordForever ==
    [][\A s \in IF last'.route = "login" THEN {last'.sid} ELSE {}, e \in EmailInputs :
        LET uid == UserByEmail(Normalised(e))
        IN  uid # 0 =>
                \A p \in PasswordInputs :
                    \/ IF p = signedUp[uid] THEN LoginSucceeded(s, uid) ELSE LoginFailed(s)
                    \/ ~login(s, e, p)]_vars

\* C1 amended: a login succeeds and opens a session for the user exactly when its
\* password is the one the user of that email set last, at signup or by a later
\* profile update (which stores the stripped password); any other login fails and
\* opens no session.
C1_CurrentPasswordLogsIn ==
    [][\A s \in IF last'.route = "login" THEN {last'.sid} ELSE {}, e \in EmailInputs :
        LET uid == UserByEmail(Normalised(e))
        IN  \A p \in PasswordInputs :
                \/ IF uid # 0 /\ p = current[uid] THEN LoginSucceeded(s, uid)
                   ELSE LoginFailed(s)
                \/ ~login(s, e, p)]_vars

\* a login succeeded with a password that a profile update had set
C1_Witness ==
    /\ last.route = "login" /\ last.target = "dashboard"
    /\ current[session[last.sid].user_id] # signedUp[session[last.sid].user_id]

\* the browsers a step may be a signup request of: their pending request changed, or
\* the response is one to their signup
SignupStepOf ==
    {s \in Sessions : pending'[s] # pending[s] \/ (last'.route = "signup" /\ last'.sid = s)}

UniqueEmails ==
    \A i, j \in 1..Len(users) :
        i # j => Normalised(users[i].email) # Normalised(users[j].email)

\* C2: no two User rows ever have the same stripped, lower-cased email, also when
\* the lookup and the insert of two signups interleave, and a signup whose email
\* matches an existing row leaves the User table and the session unchanged.
C2_NoDuplicateEmail ==
    /\ []UniqueEmails
    /\ [][\A s \in SignupStepOf :
            \/ UNCHANGED <<users, session>>
            \/ /\ \A f \in SignupForms(NameInputs, OnePassword, Roles) :
                     (\E i \in 1..Len(users) : users[i].email = Normalised(f.email))
                     => ~signup(s, f.name, f.email, f.password, f.role)
               /\ (\E i \in 1..Len(users) : users[i].email = pending[s].email)
                  => ~signup_commit(s)]_vars

\* the insert of a signup was refused: another signup had taken the email in between
C2_Witness ==
    /\ last.route = "signup" /\ last.status = "error"
    /\ Len(users) > 0

C4_OwnBookingsOnly ==
    last.route = "view_bookings" /\ last.status = "render" =>
        /\ Range(last.ctx.bookings) = OwnedBy(session[last.sid].user_id)
        /\ Len(last.ctx.bookings) = Cardinality(OwnedBy(session[last.sid].user_id))

\* view_bookings returned a passenger's booking while another passenger had one too
C4_Witness ==
    /\ last.route = "view_bookings" /\ last.status = "render"
    /\ Len(last.ctx.bookings) > 0
    /\ \E b \in Range(bookings) : b.passenger_id # session[last.sid].user_id

Expected(route) == IF route \in {"book_trip", "view_bookings"} THEN "passenger" ELSE "admin"

GuardedRoutes == {"book_trip", "view_bookings"} \cup AdminRoutes

GuardedRequest(s, route) ==
    IF route = "book_trip"
    THEN \E m \in {"GET", "POST"}, d \in FieldInputs, o \in FieldInputs, t \in FieldInputs :
            book_trip(s, m, d, o, t)
    ELSE IF route = "view_bookings" THEN view_bookings(s)
    ELSE IF route = "reports" THEN reports(s)
    ELSE IF route = "manage_users" THEN manage_users(s)
    ELSE trips_overview(s)

\* C5: on every role-guarded route a request without a session is redirected to
\* login and a request whose session role is not the expected one is redirected to
\* the dashboard with the not-authorized flash; in both cases nothing is rendered
\* and the tables and the session are unchanged.
C5_RoleGate ==
    [][\A s \in {last'.sid} \cap Sessions, route \in {last'.route} \cap GuardedRoutes :
        /\ session[s].user_id = 0 =>
              \/ /\ last'.status = "redirect" /\ last'.target = "login"
                 /\ UNCHANGED <<users, bookings, session>>
              \/ ~GuardedRequest(s, route)
        /\ session[s].user_id # 0 /\ session[s].role # Expected(route) =>
              \/ /\ last'.status = "redirect" /\ last'.target = "dashboard"
                 /\ last'.flash = NotAuthorized
                 /\ UNCHANGED <<users, bookings, session>>
              \/ ~GuardedRequest(s, route)]_vars

\* an admin session was turned away from a passenger route, a passenger session
\* from an admin route
C5_Witness ==
    /\ last.flash = NotAuthorized
    /\ \/ last.route = "book_trip" /\ last.method = "POST" /\ session[last.sid].role = "admin"
       \/ last.route = "manage_users" /\ session[last.sid].role = "passenger"
    /\ Len(users) = 2

\* C6: a book-trip POST with an empty or whitespace-only trip_date, origin or
\* destination leaves the Booking table unchanged, and one with three non-blank
\* fields from a passenger session adds exactly one Booking, Booked and owned by the
\* session's user.
C6_BlankFieldNoBooking ==
    [][\A s \in IF last'.route = "book_trip" /\ last'.method = "POST" THEN {last'.sid} ELSE {} :
        /\ \/ UNCHANGED bookings
           \/ \A d \in FieldInputs, o \in FieldInputs, t \in FieldInputs :
                 Blank(d) \/ Blank(o) \/ Blank(t) => ~book_trip(s, "POST", d, o, t)
        /\ \/ /\ Len(bookings') = Len(bookings) + 1
              /\ SubSeq(bookings', 1, Len(bookings)) = bookings
              /\ bookings'[Len(bookings')].status = "Booked"
              /\ bookings'[Len(bookings')].passenger_id = session[s].user_id
           \/ session[s].user_id = 0
           \/ session[s].role # "passenger"
           \/ \A d \in NonBlank, o \in NonBlank, t \in NonBlank : ~book_trip(s, "POST", d, o, t)]_vars

\* a passenger who holds a booking sent a form with a blank field
C6_Witness ==
    /\ last.route = "book_trip" /\ last.flash = "Please complete all trip fields."
    /\ OwnedBy(session[last.sid].user_id) # {}

\* C7: for every passenger the upcoming list and the history list of the dashboard
\* are disjoint and together hold exactly the passenger's bookings, and the
\* dashboard shows those two lists.
C7_Partition ==
    /\ \A uid \in 1..Len(users) :
          /\ Range(Upcoming(uid)) \cap Range(History(uid)) = {}
          /\ Range(Upcoming(uid)) \cup Range(History(uid)) = OwnedBy(uid)
    /\ last.route = "dashboard" /\ last.target = "passenger_dashboard.html" =>
          /\ Range(last.ctx.trips) \cap Range(last.ctx.history) = {}
          /\ Range(last.ctx.trips) \cup Range(last.ctx.history)
                = OwnedBy(session[last.sid].user_id)

\* the dashboard showed a passenger two bookings
C7_Witness ==
    /\ last.route = "dashboard" /\ last.target = "passenger_dashboard.html"
    /\ Len(last.ctx.trips) = 2

Counted(role) == Cardinality({i \in 1..Len(users) : users[i].role = role})

\* C8: the admin dashboard and /reports both return the four counts, equal to the
\* numbers of User rows, passengers, drivers and Booking rows.
C8_Counts ==
    /\ last.status = "render"
    /\ \/ last.route = "reports"
       \/ last.route = "dashboard" /\ last.target = "admin_dashboard.html"
    => /\ {"total_users", "total_passengers", "total_drivers", "total_bookings"}
            \subseteq DOMAIN last.ctx
       /\ last.ctx.total_users = Len(users)
       /\ last.ctx.total_passengers = Counted("passenger")
       /\ last.ctx.total_drivers = Counted("driver")
       /\ last.ctx.total_bookings = Len(bookings)

\* C9: every Booking references an existing User whose role is passenger and has
\* status Booked.
C9_BookingsOfPassengers ==
    \A b \in Range(bookings) :
        /\ b.passenger_id \in 1..Len(users)
        /\ users[b.passenger_id].role = "passenger"
        /\ users[b.passenger_id].id = b.passenger_id
        /\ b.status = "Booked"

\* a booking was made while a user who is no passenger was logged in elsewhere
C9_Witness ==
    /\ last.route = "book_trip" /\ last.flash = "Trip booked successfully!"
    /\ \E s \in Sessions : session[s].user_id # 0 /\ session[s].role # "passenger"

\* C10: every active session's user id refers to a User row, and the session's role
\* and name equal that row's role and name.
C10_SessionCopies ==
    \A s \in Sessions :
        session[s].user_id # 0 =>
            /\ session[s].user_id \in 1..Len(users)
            /\ session[s].role = users[session[s].user_id].role
            /\ session[s].name = users[session[s].user_id].name
====
